---- MODULE Spec2Model ----
(***************************************************************************)
(* Model of package modem (src/modem.go): the Manager facade, the monitor  *)
(* goroutine and the readDevice correlator, with the udev event source and *)
(* the serial port as environment.                                         *)
(***************************************************************************)
EXTENDS Integers, Sequences, FiniteSets, TLC

\* ---------------------------------------------------------------- bounds
\* what the environment does to one Manager in one run: AddFilter calls,
\* Monitor calls that start a goroutine, devices listed by a scan and
\* hot-plug events, taken together
MaxInputs == 4

\* ------------------------------------------------------ program constants
IMEILEN == 17
IMEIFRAME == 25

\* ------------------------------------------------------------ udev world
\* two modems of one model, and a modem of the same vendor nobody filters for
NoUsb == [devnode |-> "", vid |-> "", pid |-> ""]
Usb1  == [devnode |-> "/dev/bus/usb/001/002", vid |-> "12d1", pid |-> "1506"]
Usb2  == [devnode |-> "/dev/bus/usb/001/003", vid |-> "12d1", pid |-> "1506"]
UsbX  == [devnode |-> "/dev/bus/usb/001/004", vid |-> "12d1", pid |-> "1001"]

IsNil(u) == u = NoUsb

\* the device-node paths a registry key can be
Paths == {Usb1.devnode, Usb2.devnode, UsbX.devnode}

Dev(sub, node, name, ep, usb) ==
    [subsystem |-> sub, devnode |-> node, sysname |-> name, epnum |-> ep, usb |-> usb]

TtyAT1  == Dev("tty", "/dev/ttyUSB0", "ttyUSB0", "03", Usb1)
TtyAux1 == Dev("tty", "/dev/ttyUSB1", "ttyUSB1", "02", Usb1)
Net1    == Dev("net", "", "wwan0", "03", Usb1)
UsbDev1 == Dev("usb", Usb1.devnode, "1-1", "", Usb1)
Net2    == Dev("net", "", "wwan1", "03", Usb2)
TtyX    == Dev("tty", "/dev/ttyUSB9", "ttyUSB9", "03", UsbX)
TtyS0   == Dev("tty", "/dev/ttyS0", "ttyS0", "", NoUsb)

\* devices of the tty and net subsystems present when a scan runs
Enumerable == {TtyAT1, Net1, TtyS0}

Ev(act, d) == [action |-> act] @@ d

\* live events: what mon.ReceiveDevice can return under the three
\* monitor filters (tty, net, usb/usb_device)
Events ==
    {Ev("add", d) : d \in {TtyAT1, TtyAux1, Net1, Net2, TtyX, TtyS0, UsbDev1}}
    \cup {Ev("change", TtyAT1), Ev("remove", UsbDev1)}

\* a listed device has no action
Scanned == {Ev("", d) : d \in Enumerable}

NoEvent == [action |-> "none"]

\* the pairs the caller passes to AddFilter
FilterPairs == {[vid |-> Usb1.vid, pid |-> Usb1.pid]}

\* the callbacks the caller passes to AddHandler
HandlerArgs == {<<"cb", "nil", "cb">>}

\* ----------------------------------------------------------- serial port
CR == "CR"
LF == "LF"
SP == "SP"
Digits15 == <<"1","2","3","4","5","6","7","8","9","0","1","2","3","4","5">>
Good25  == <<CR, LF>> \o Digits15 \o <<CR, LF, CR, LF, "O", "K", CR, LF>>
Blank25 == [i \in 1..25 |-> IF i % 3 = 0 THEN SP ELSE IF i % 3 = 1 THEN CR ELSE LF]
Short10 == SubSeq(Good25, 1, 10)
Long26  == Good25 \o <<LF>>

Serial(o, w, r, resp) == [open |-> o, write |-> w, read |-> r, resp |-> resp]

NoSerial == Serial("none", "none", "none", <<>>)

\* what the port does during one getImei call
SerialOutcomes ==
    {Serial("err", "ok", "ok", <<>>), Serial("ok", "err", "ok", <<>>),
     Serial("ok", "ok", "err", <<>>)}
    \cup {Serial("ok", "ok", "ok", r) : r \in {Good25, Blank25, Short10, Long26}}

CutSet == {CR, LF, SP}

RECURSIVE TrimLeft(_)
TrimLeft(s) ==
    IF s = <<>> THEN s
    ELSE IF Head(s) \in CutSet THEN TrimLeft(Tail(s)) ELSE s

RECURSIVE TrimRight(_)
TrimRight(s) ==
    IF s = <<>> THEN s
    ELSE IF s[Len(s)] \in CutSet THEN TrimRight(SubSeq(s, 1, Len(s) - 1)) ELSE s

\* strings.Trim(s, "\r\n ")
Trim(s) == TrimRight(TrimLeft(s))

BadLength_Shorter(n) == n < IMEIFRAME

\* n != 25
BadLength(n) == n # IMEIFRAME

getImei(port, s) ==
    IF s.open # "ok" THEN [imei |-> <<>>, err |-> "open"]
    ELSE IF s.write # "ok" THEN [imei |-> <<>>, err |-> "write"]
    ELSE IF s.read # "ok" THEN [imei |-> <<>>, err |-> "read"]
    ELSE IF BadLength(Len(s.resp)) THEN [imei |-> <<>>, err |-> "Invalid Imei"]
    ELSE [imei |-> Trim(SubSeq(s.resp, 1, IMEILEN)), err |-> "nil"]

\* ------------------------------------------------------------------ state
VARIABLES
    filters,      \* m.filters
    devices,      \* m.devices: parent path -> Modem
    handlers,     \* m.handleAdd / m.handleUpdate / m.handleRemove
    stopMonitor,  \* m.stopMonitor: "nil", "open" or "closed"
    monitoring,   \* m.monitoring
    workers,      \* the monitor goroutines, in start order
    nEvents,      \* devices udev has delivered: listed by a scan or hot-plugged
    list,         \* the caller's List call in progress and its last result
    ret,          \* what Monitor or StopMonitor, called by the last step, returned
    ev,           \* the device the last step passed to readDevice
    fired,        \* handler invocations made by the last step
    io            \* sleeps and serial exchanges made by the last step

vars == <<filters, devices, handlers, stopMonitor, monitoring, workers, nEvents,
          list, ret, ev, fired, io>>

ZeroModem == [Net |-> "", Tty |-> "", Imei |-> <<>>, ready |-> 0]
EmptyMap == [k \in {} |-> ZeroModem]

Lookup(devs, k) == IF k \in DOMAIN devs THEN devs[k] ELSE ZeroModem
Put(devs, k, v) == [x \in DOMAIN devs \cup {k} |-> IF x = k THEN v ELSE devs[x]]
Delete(devs, k) == [x \in DOMAIN devs \ {k} |-> devs[x]]

Inputs == Len(filters) + Len(workers) + nEvents

NoRet == [op |-> "none", err |-> "nil"]
Ret(op, err) == [op |-> op, err |-> err]

ErrStarted == "Monitor is already started"
ErrStopped == "Monitor already stopped."

\* the caller's List call: the range loop's position, the map it builds,
\* and whether the registry was written while the loop ran
NewList(pc, keys) ==
    [pc |-> pc, start |-> keys, seen |-> {}, devList |-> EmptyMap, dirty |-> FALSE]

Written(devs) ==
    IF list.pc = "iter" /\ devs # devices THEN [list EXCEPT !.dirty = TRUE] ELSE list

Quiet == /\ ret' = NoRet
         /\ ev' = NoEvent
         /\ fired' = <<>>
         /\ io' = <<>>

Init ==
    /\ filters = <<>>
    /\ devices = EmptyMap
    /\ handlers = [add |-> "noop", update |-> "noop", remove |-> "noop"]
    /\ stopMonitor = "nil"
    /\ monitoring = FALSE
    /\ workers = <<>>
    /\ nEvents = 0
    /\ list = NewList("idle", {})
    /\ ret = NoRet
    /\ ev = NoEvent
    /\ fired = <<>>
    /\ io = <<>>

\* ------------------------------------------------------------- readDevice
FilterMatches_VendorOnly(f, vid, pid) == vid = f.vid

FilterMatches(f, vid, pid) == vid = f.vid /\ pid = f.pid

\* action != "update"
IsAddAction(action) == action # "update"

IsATPort_AnyTty(dev) == dev.subsystem = "tty"

\* originalSubSys == "tty" && originalEPnum == "03"
IsATPort(dev) == dev.subsystem = "tty" /\ dev.epnum = "03"

NetUpdate_FreshRecord(d, dev) == [ZeroModem EXCEPT !.Net = dev.sysname]

\* d.Net = fileDescriptor
NetUpdate(d, dev) == [d EXCEPT !.Net = dev.sysname]

ImeiUpdate_LeavesNotReady(d, dev, imei) == [d EXCEPT !.Tty = dev.devnode, !.Imei = imei]

\* d.Tty = originalDevNode; d.Imei = imei; d.ready = 1
ImeiUpdate(d, dev, imei) == [d EXCEPT !.Tty = dev.devnode, !.Imei = imei, !.ready = 1]

\* serial is what the port did during the call
Sleep5 == [call |-> "sleep5", port |-> "", serial |-> NoSerial, err |-> "nil", imei |-> <<>>]
GetImeiCall(port, s, res) ==
    [call |-> "getImei", port |-> port, serial |-> s, err |-> res.err, imei |-> res.imei]

Invoke(slot, hs, d, devs, key) ==
    [slot |-> slot, fn |-> hs[slot], m |-> d,
     persisted |-> key \in DOMAIN devs /\ devs[key] = d]

Effect(devs, f, i) == [devices |-> devs, fired |-> f, io |-> i]

\* the body of the filter loop for one matching filter; s is what the serial
\* port does if getImei is called
MatchBody(dev, hs, st, s) ==
    LET key == dev.usb.devnode
        d0 == Lookup(st.devices, key)
        d1 == IF dev.subsystem = "net" THEN NetUpdate(d0, dev) ELSE d0
    IN IF IsATPort(dev)
       THEN LET res == getImei(dev.devnode, s)
                d2 == IF res.err = "nil" THEN ImeiUpdate(d1, dev, res.imei) ELSE d1
                slot == IF IsAddAction(dev.action) THEN "add" ELSE "update"
            IN Effect(Put(st.devices, key, d2),
                      Append(st.fired, Invoke(slot, hs, d2, st.devices, key)),
                      st.io \o (IF dev.action = "add" THEN <<Sleep5>> ELSE <<>>)
                            \o <<GetImeiCall(dev.devnode, s, res)>>)
       ELSE Effect(Put(st.devices, key, d1), st.fired, st.io)

RECURSIVE FilterLoop(_, _, _, _, _, _)
FilterLoop(i, dev, flt, hs, st, ss) ==
    IF i > Len(flt) THEN st
    ELSE IF FilterMatches(flt[i], dev.usb.vid, dev.usb.pid)
         THEN FilterLoop(i + 1, dev, flt, hs, MatchBody(dev, hs, st, ss[i]), ss)
         ELSE FilterLoop(i + 1, dev, flt, hs, st, ss)

RemoveDevice_KeepsEntry(dev, hs, devs) ==
    IF dev.devnode \notin DOMAIN devs
    THEN Effect(devs, <<>>, <<>>)
    ELSE Effect(devs, <<Invoke("remove", hs, devs[dev.devnode], devs, dev.devnode)>>, <<>>)

RemoveDevice(dev, hs, devs) ==
    IF dev.devnode \notin DOMAIN devs
    THEN Effect(devs, <<>>, <<>>)
    ELSE Effect(Delete(devs, dev.devnode),
                <<Invoke("remove", hs, devs[dev.devnode], devs, dev.devnode)>>,
                <<>>)

\* ss[i] is what the serial port does in the i-th pass of the filter loop
readDevice(dev, flt, hs, devs, ss) ==
    IF dev.action = "remove" THEN RemoveDevice(dev, hs, devs)
    ELSE IF dev.subsystem # "tty" /\ dev.subsystem # "net" THEN Effect(devs, <<>>, <<>>)
    ELSE IF IsNil(dev.usb) THEN Effect(devs, <<>>, <<>>)
    ELSE FilterLoop(1, dev, flt, hs, Effect(devs, <<>>, <<>>), ss)

\* the serial port is consulted only by a tty event on endpoint count "03"
SerialRuns(dev) ==
    IF dev.action # "remove" /\ IsATPort(dev) /\ ~IsNil(dev.usb)
    THEN [1..Len(filters) -> SerialOutcomes]
    ELSE {[i \in 1..Len(filters) |-> Serial("err", "ok", "ok", <<>>)]}

Dispatch(dev) ==
    \E ss \in SerialRuns(dev) :
        LET r == readDevice(dev, filters, handlers, devices, ss)
        IN /\ devices' = r.devices
           /\ list' = Written(r.devices)
           /\ fired' = r.fired
           /\ io' = r.io
           /\ ev' = dev
           /\ ret' = NoRet

\* ------------------------------------------------------------ Manager API
AddHandler(a, u, r) ==
    /\ handlers' = [add    |-> IF a # "nil" THEN a ELSE handlers.add,
                    update |-> IF u # "nil" THEN u ELSE handlers.update,
                    remove |-> IF r # "nil" THEN r ELSE handlers.remove]
    /\ Quiet
    /\ UNCHANGED <<filters, devices, stopMonitor, monitoring, workers, nEvents, list>>

AddFilter(vid, pid) ==
    /\ Inputs < MaxInputs
    /\ filters' = Append(filters, [vid |-> vid, pid |-> pid])
    /\ Quiet
    /\ UNCHANGED <<devices, handlers, stopMonitor, monitoring, workers, nEvents, list>>

IsReady_Always(v) == TRUE

\* v.ready == 1
IsReady(v) == v.ready = 1

ListCall ==
    /\ list.pc = "idle"
    /\ list' = NewList("iter", DOMAIN devices)
    /\ Quiet
    /\ UNCHANGED <<filters, devices, handlers, stopMonitor, monitoring, workers, nEvents>>

\* one pass of the range loop; a key inserted after the loop began may or
\* may not be visited
ListNext(k) ==
    /\ list.pc = "iter"
    /\ k \in DOMAIN devices \ list.seen
    /\ list' = [list EXCEPT !.seen = @ \cup {k},
                            !.devList = IF IsReady(devices[k])
                                        THEN Put(@, k, devices[k]) ELSE @]
    /\ Quiet
    /\ UNCHANGED <<filters, devices, handlers, stopMonitor, monitoring, workers, nEvents>>

ListReturn ==
    /\ list.pc = "iter"
    /\ (list.start \cap DOMAIN devices) \subseteq list.seen
    /\ list' = [list EXCEPT !.pc = "idle", !.start = {}, !.seen = {}, !.dirty = FALSE]
    /\ Quiet
    /\ UNCHANGED <<filters, devices, handlers, stopMonitor, monitoring, workers, nEvents>>

NewWorker == [pc |-> "start", queue |-> <<>>]

Monitor ==
    /\ Inputs < MaxInputs
    /\ IF monitoring
       THEN /\ ret' = Ret("Monitor", ErrStarted)
            /\ UNCHANGED <<stopMonitor, workers>>
       ELSE /\ stopMonitor' = "open"
            /\ workers' = Append(workers, NewWorker)
            /\ ret' = Ret("Monitor", "nil")
    /\ ev' = NoEvent /\ fired' = <<>> /\ io' = <<>>
    /\ UNCHANGED <<filters, devices, handlers, monitoring, nEvents, list>>

StopMonitor ==
    /\ IF ~monitoring
       THEN /\ ret' = Ret("StopMonitor", ErrStopped)
            /\ UNCHANGED <<stopMonitor, monitoring>>
       ELSE /\ stopMonitor' = "closed"
            /\ monitoring' = FALSE
            /\ ret' = Ret("StopMonitor", "nil")
    /\ ev' = NoEvent /\ fired' = <<>> /\ io' = <<>>
    /\ UNCHANGED <<filters, devices, handlers, workers, nEvents, list>>

\* ------------------------------------------------------ monitor goroutine
Receiving(w) == workers[w].pc \in {"enum", "loop"}
Running(w) == workers[w].pc # "done"

\* mon.EnableReceiving fails and the goroutine returns, or the socket is
\* open and e.ScanDevices has run
WorkerStart(w) ==
    /\ w \in DOMAIN workers
    /\ workers[w].pc = "start"
    /\ \E pc \in {"done", "enum"} : workers' = [workers EXCEPT ![w].pc = pc]
    /\ Quiet
    /\ UNCHANGED <<filters, devices, handlers, stopMonitor, monitoring, nEvents, list>>

\* one pass of the enumeration loop: the next listed device is read, or the
\* list is at its end
WorkerEnum(w) ==
    /\ w \in DOMAIN workers
    /\ workers[w].pc = "enum"
    /\ \/ /\ Inputs < MaxInputs
          /\ \E dev \in Scanned : Dispatch(dev)
          /\ nEvents' = nEvents + 1
          /\ UNCHANGED workers
       \/ /\ workers' = [workers EXCEPT ![w].pc = "loop"]
          /\ Quiet
          /\ UNCHANGED <<devices, nEvents, list>>
    /\ UNCHANGED <<filters, handlers, stopMonitor, monitoring>>

\* one pass of the for/select loop; break leaves the select, not the loop
WorkerLoop(w) ==
    /\ w \in DOMAIN workers
    /\ workers[w].pc = "loop"
    /\ IF stopMonitor = "closed"
       THEN /\ devices' = EmptyMap
            /\ list' = Written(EmptyMap)
            /\ Quiet
            /\ UNCHANGED workers
       ELSE IF workers[w].queue # <<>>
            THEN /\ Dispatch(Head(workers[w].queue))
                 /\ workers' = [workers EXCEPT ![w].queue = Tail(@)]
            ELSE /\ UNCHANGED <<devices, workers, list, ret, ev, fired, io>>
    /\ UNCHANGED <<filters, handlers, stopMonitor, monitoring, nEvents>>

\* the kernel emits an event; every open netlink socket queues it
OSEvent(e) ==
    /\ Inputs < MaxInputs
    /\ \E w \in DOMAIN workers : Receiving(w)
    /\ nEvents' = nEvents + 1
    /\ workers' = [w \in DOMAIN workers |->
                     IF Receiving(w)
                     THEN [workers[w] EXCEPT !.queue = Append(@, e)]
                     ELSE workers[w]]
    /\ Quiet
    /\ UNCHANGED <<filters, devices, handlers, stopMonitor, monitoring, list>>

WorkerStep(w) == WorkerStart(w) \/ WorkerEnum(w) \/ WorkerLoop(w)

Next ==
    \/ \E h \in HandlerArgs : AddHandler(h[1], h[2], h[3])
    \/ \E f \in FilterPairs : AddFilter(f.vid, f.pid)
    \/ ListCall
    \/ \E k \in Paths : ListNext(k)
    \/ ListReturn
    \/ Monitor
    \/ StopMonitor
    \/ \E w \in 1..MaxInputs : WorkerStart(w)
    \/ \E w \in 1..MaxInputs : WorkerEnum(w)
    \/ \E w \in 1..MaxInputs : WorkerLoop(w)
    \/ \E e \in Events : OSEvent(e)

Spec == Init /\ [][Next]_vars

\* the Go scheduler runs every runnable goroutine
FairSpec == Spec /\ \A w \in 1..MaxInputs : WF_vars(WorkerStep(w))

\* ================================================================ claims
\* A Monitor call has succeeded and no StopMonitor call has succeeded since:
\* make(chan bool) is what a successful Monitor does, close what a successful
\* StopMonitor does.
Started == stopMonitor = "open"

LiveWorkers == {w \in DOMAIN workers : Running(w)}

\* C1: while a Monitor call has succeeded and no StopMonitor has succeeded
\* since, a further Monitor call returns the "already started" error and
\* starts no goroutine; so at most one monitor goroutine exists at any time.
C1_MonitorRejectsSecondStart ==
    /\ [][(Started /\ ret'.op = "Monitor")
            => (ret'.err = ErrStarted /\ workers' = workers)]_vars
    /\ [](Cardinality(LiveWorkers) <= 1)

\* C2: StopMonitor called while started returns nil and closes the stop
\* channel; called while not started it returns the "already stopped" error
\* and leaves the flag, the channel and the registry as they were.
C2_StopMonitorContract ==
    [][ret'.op = "StopMonitor"
         => IF Started
            THEN ret'.err = "nil" /\ stopMonitor' = "closed"
            ELSE /\ ret'.err = ErrStopped
                 /\ monitoring' = monitoring
                 /\ stopMonitor' = stopMonitor
                 /\ devices' = devices]_vars

\* StopMonitor has just been called on a Manager whose goroutine is running.
StopRequested ==
    /\ ret.op = "StopMonitor"
    /\ \E w \in DOMAIN workers : Receiving(w)

\* C3: once StopMonitor has asked a running monitor to stop, the goroutine's
\* next pass of the loop empties the registry: eventually it is empty.
C3_StopEmptiesRegistry == StopRequested ~> (devices = EmptyMap)

\* C4: once StopMonitor has asked a running monitor to stop, every monitor
\* goroutine eventually leaves its loop for good.
C4_WorkerTerminates == StopRequested ~> [](LiveWorkers = {})

\* ------------------------------------------------------------------ List
ReadyEntries(devs) == [k \in {x \in DOMAIN devs : devs[x].ready = 1} |-> devs[k]]

\* C5: the map List builds never holds a record whose ready flag is unset; a
\* call during which the registry is not written returns exactly the ready
\* entries of the registry; and later steps leave a returned map as it is.
C5_ListReturnsReadyEntries ==
    /\ [](\A k \in DOMAIN list.devList : list.devList[k].ready = 1)
    /\ [][(list.pc = "iter" /\ list'.pc = "idle" /\ ~list.dirty)
            => list'.devList = ReadyEntries(devices)]_vars
    /\ [][(list.pc = "idle" /\ list'.pc = "idle") => list'.devList = list.devList]_vars

\* List has returned one ready modem while the registry also holds a record
\* that is not ready.
C5_Witness ==
    /\ list.pc = "idle"
    /\ DOMAIN list.devList = {Usb1.devnode}
    /\ Usb2.devnode \in DOMAIN devices

\* ------------------------------------------------------------ readDevice
\* some filter of the set lists the event's parent USB device
ParentListed(e) ==
    \E i \in 1..Len(filters) : filters[i] = [vid |-> e.usb.vid, pid |-> e.usb.pid]

\* a tty or net device below a USB device some filter lists
OfInterest(e) == e.subsystem \in {"tty", "net"} /\ e.usb # NoUsb /\ ParentListed(e)

Previous(k) == IF k \in DOMAIN devices THEN devices[k] ELSE ZeroModem

Count(f, slot) == Cardinality({n \in 1..Len(f) : f[n].slot = slot})

\* C6: an event that is not a remove and whose device is of no interest (its
\* parent's pair equals no filter, it has no USB parent, or it is neither tty
\* nor net) leaves the registry as it was and invokes no handler.
C6_UnmatchedEventInert ==
    [][(ev' # NoEvent /\ ev'.action # "remove" /\ ~OfInterest(ev'))
         => (devices' = devices /\ fired' = <<>>)]_vars

\* an unlisted modem's tty was plugged in while a filter and a record exist
C6_Witness ==
    /\ ev # NoEvent
    /\ ev.action = "add"
    /\ ev.usb = UsbX
    /\ Len(filters) > 0
    /\ devices # EmptyMap

\* C7: a remove event for a path the registry holds invokes the remove handler
\* once, with the record held, and deletes that entry only; for a path the
\* registry does not hold it invokes nothing and changes nothing.
C7_RemoveEvent ==
    [][(ev' # NoEvent /\ ev'.action = "remove")
         => IF ev'.devnode \in DOMAIN devices
            THEN /\ Len(fired') = 1
                 /\ fired'[1].slot = "remove"
                 /\ fired'[1].m = devices[ev'.devnode]
                 /\ DOMAIN devices' = DOMAIN devices \ {ev'.devnode}
                 /\ \A k \in DOMAIN devices' : devices'[k] = devices[k]
            ELSE fired' = <<>> /\ devices' = devices]_vars

\* a ready modem was unplugged and the remove handler got its record
C7_Witness ==
    /\ ev # NoEvent
    /\ ev.action = "remove"
    /\ Len(fired) = 1
    /\ fired[1].m.ready = 1
    /\ ev.devnode \notin DOMAIN devices

\* C8: a net event of interest invokes no handler and changes only the Net
\* field of the record under the parent path; Tty, Imei and ready of that
\* record (the zero record on first sight) and all other entries stay.
C8_NetEventFrame ==
    [][(ev' # NoEvent /\ ev'.action # "remove" /\ ev'.subsystem = "net" /\ OfInterest(ev'))
         => LET key == ev'.usb.devnode
            IN /\ fired' = <<>>
               /\ DOMAIN devices' = DOMAIN devices \cup {key}
               /\ devices'[key] = [Previous(key) EXCEPT !.Net = ev'.sysname]
               /\ \A k \in DOMAIN devices \ {key} : devices'[k] = devices[k]]_vars

\* the network interface of a listed modem appeared while the registry
\* holds a second modem
C8_Witness ==
    /\ ev = Ev("add", Net1)
    /\ DOMAIN devices = {Usb1.devnode, Usb2.devnode}
    /\ devices[Usb1.devnode].Net = "wwan0"
    /\ fired = <<>>

\* C9: a tty event whose interface has an endpoint count other than "03"
\* invokes no handler, makes no serial exchange and sets ready on no record.
C9_OtherEndpointInert ==
    [][(ev' # NoEvent /\ ev'.action # "remove" /\ ev'.subsystem = "tty" /\ ev'.epnum # "03")
         => /\ fired' = <<>>
            /\ io' = <<>>
            /\ \A k \in DOMAIN devices' :
                 devices'[k].ready = 1 => (k \in DOMAIN devices /\ devices[k].ready = 1)]_vars

\* the auxiliary serial port of a listed modem was plugged in
C9_Witness ==
    /\ ev = Ev("add", TtyAux1)
    /\ Len(filters) > 0
    /\ Usb1.devnode \in DOMAIN devices

\* every identifier retrieval of the step succeeded, and there was one
RetrievalOK(i) ==
    /\ \E n \in 1..Len(i) : i[n].call = "getImei"
    /\ \A n \in 1..Len(i) : i[n].call = "getImei" => i[n].err = "nil"

\* C10: whatever filters list the device's pair (also more than once), one tty
\* add event on endpoint count "03" with successful retrieval leaves the
\* record ready, with Tty the leaf device node and Imei the identifier
\* retrieved, and invokes the add handler once and no other handler.
C10_OneAddPerEvent ==
    [][(/\ ev' # NoEvent
        /\ ev'.action = "add"
        /\ ev'.subsystem = "tty"
        /\ ev'.epnum = "03"
        /\ OfInterest(ev')
        /\ RetrievalOK(io'))
         => LET key == ev'.usb.devnode
            IN /\ key \in DOMAIN devices'
               /\ devices'[key].ready = 1
               /\ devices'[key].Tty = ev'.devnode
               /\ devices'[key].Imei = io'[Len(io')].imei
               /\ Count(fired', "add") = 1
               /\ Count(fired', "update") = 0
               /\ Count(fired', "remove") = 0]_vars

\* a tty event on endpoint count "03" below a USB device some filter lists
ATEvent(e) ==
    /\ e # NoEvent
    /\ e.action # "remove"
    /\ e.subsystem = "tty"
    /\ e.epnum = "03"
    /\ OfInterest(e)

\* every identifier retrieval of the step failed, and there was one
RetrievalFailed(i) ==
    /\ \E n \in 1..Len(i) : i[n].call = "getImei"
    /\ \A n \in 1..Len(i) : i[n].call = "getImei" => i[n].err # "nil"

\* C11: when identifier retrieval fails during a tty event on endpoint count
\* "03", the record under the parent path keeps Tty, Imei and ready as they
\* were (the zero values on first sight), and the handler is still invoked
\* exactly once, with that record; for an add event it is the add handler.
C11_FailedRetrievalStillNotifies ==
    [][(ATEvent(ev') /\ RetrievalFailed(io'))
         => LET key == ev'.usb.devnode
            IN /\ key \in DOMAIN devices'
               /\ devices'[key] = Previous(key)
               /\ Len(fired') = 1
               /\ fired'[1].m = Previous(key)
               /\ (ev'.action = "add" => fired'[1].slot = "add")]_vars

\* C12: for a tty event on endpoint count "03" below a listed parent, the
\* action "change" invokes the update handler and not the add handler, and
\* the action "add" invokes the add handler and not the update handler.
C12_HandlerFollowsAction ==
    [][ATEvent(ev')
         => /\ fired' # <<>>
            /\ (ev'.action = "change"
                  => Count(fired', "update") > 0 /\ Count(fired', "add") = 0)
            /\ (ev'.action = "add"
                  => Count(fired', "add") > 0 /\ Count(fired', "update") = 0)]_vars

\* C13: every record of the registry whose ready flag is set has a non-empty
\* Tty and a non-empty Imei, whatever response the retrieval accepted.
C13_ReadyHasTtyAndImei ==
    \A k \in DOMAIN devices :
        devices[k].ready = 1 => (devices[k].Tty # "" /\ devices[k].Imei # <<>>)

\* C14: whenever the add or the update handler is invoked with a record for a
\* parent path, the registry already holds exactly that record under that
\* path at the moment of the call.
C14_PersistBeforeNotify ==
    [][\A n \in 1..Len(fired') :
          fired'[n].slot \in {"add", "update"} => fired'[n].persisted]_vars

\* ----------------------------------------------------------- concurrency
\* C15: accesses to the registry exclude one another: between the start and
\* the return of a List call no step of the monitor goroutine writes to,
\* deletes from or clears the registry.
C15_ListExcludesWriters ==
    [][(list.pc = "iter" /\ list'.pc = "iter") => devices' = devices]_vars

\* ------------------------------------------------------------ event loop
\* C16: a device listed at start is handled exactly as an event with action
\* "add" is: for a tty device on endpoint count "03" below a listed parent
\* the goroutine, before it dispatches any hot-plug event, waits the settle
\* delay, then retrieves the identifier, and invokes the add handler only.
C16_ScannedHandledAsAdd ==
    [][(ATEvent(ev') /\ ev'.action = "")
         => /\ \E w \in DOMAIN workers : workers[w].pc = "enum"
            /\ io' # <<>>
            /\ io'[1] = Sleep5
            /\ Count(fired', "add") = Len(fired')]_vars

\* the number of events goroutine w has received and not yet handled
Pending(w) == Len(workers[w].queue)

\* goroutine w takes the next event from its socket in this step
Takes(w) ==
    /\ workers[w].pc = "loop"
    /\ workers[w].queue # <<>>
    /\ workers'[w].queue = Tail(workers[w].queue)

\* C17: events are handled one after the other in the order delivered,
\* whatever Monitor and StopMonitor calls were made: each event delivered is
\* handled once, so when an event is passed to readDevice no other goroutine
\* holds that same event still to be handled. (Every open socket queues
\* every event, so a goroutine with as many events waiting as the one that
\* takes its oldest holds that event too.)
C17_HandledOnceInOrder ==
    [][\A w \in DOMAIN workers :
          Takes(w) => \A v \in DOMAIN workers \ {w} : Pending(v) < Pending(w)]_vars

\* --------------------------------------------------------------- getImei
\* s without the bytes of CutSet at its two ends
Stripped(s) ==
    LET keep == {i \in 1..Len(s) : s[i] \notin CutSet}
    IN IF keep = {} THEN <<>>
       ELSE SubSeq(s, CHOOSE i \in keep : \A j \in keep : i <= j,
                      CHOOSE i \in keep : \A j \in keep : i >= j)

GetImeiCalls == {n \in 1..Len(io) : io[n].call = "getImei"}

PortFailed(s) == s.open # "ok" \/ s.write # "ok" \/ s.read # "ok"

\* C18 as claimed: a second read of n bytes fails with "Invalid Imei" iff
\* n < 25, and for every n >= 25 the call returns the first 17 bytes without
\* surrounding CR, LF and space; a failing open, write or read returns an
\* error and no identifier.
C18_FailsIffShorter ==
    \A n \in GetImeiCalls :
        LET s == io[n].serial
        IN IF PortFailed(s)
           THEN io[n].err \notin {"nil", "Invalid Imei"} /\ io[n].imei = <<>>
           ELSE /\ io[n].err = "Invalid Imei" <=> Len(s.resp) < IMEIFRAME
                /\ Len(s.resp) >= IMEIFRAME
                     => /\ io[n].err = "nil"
                        /\ io[n].imei = Stripped(SubSeq(s.resp, 1, IMEILEN))

\* C18: a second read of n bytes fails with "Invalid Imei" and no identifier
\* iff n is not 25, and for n = 25 the call returns the first 17 bytes
\* without surrounding CR, LF and space; a failing open, write or read
\* returns an error and no identifier.
C18_FailsIffNotFrameLength ==
    \A n \in GetImeiCalls :
        LET s == io[n].serial
        IN IF PortFailed(s)
           THEN io[n].err \notin {"nil", "Invalid Imei"} /\ io[n].imei = <<>>
           ELSE /\ io[n].err = "Invalid Imei" <=> Len(s.resp) # IMEIFRAME
                /\ io[n].err = "Invalid Imei" => io[n].imei = <<>>
                /\ Len(s.resp) = IMEIFRAME
                     => /\ io[n].err = "nil"
                        /\ io[n].imei = Stripped(SubSeq(s.resp, 1, IMEILEN))

\* one event made two calls: a 26-byte response was refused, a well-formed
\* 25-byte response gave the 15 digits
C18_Witness ==
    \E i, j \in GetImeiCalls :
        /\ io[i].serial.resp = Long26
        /\ io[i].err = "Invalid Imei"
        /\ io[j].serial.resp = Good25
        /\ io[j].err = "nil"
        /\ io[j].imei = Digits15

\* ------------------------------------------------- readDevice, continued
\* C19: a tty add or change event below a listed parent whose interface has
\* an endpoint count other than "03" creates no registry entry and modifies
\* none.
C19_OtherEndpointWritesNothing ==
    [][(/\ ev' # NoEvent
        /\ ev'.action # "remove"
        /\ ev'.subsystem = "tty"
        /\ ev'.epnum # "03"
        /\ OfInterest(ev'))
         => devices' = devices]_vars

\* ------------------------------------------------- event loop, continued
\* some identifier retrieval of the step succeeded
RetrievedSome(i) == \E n \in 1..Len(i) : i[n].call = "getImei" /\ i[n].err = "nil"

\* goroutine w has no event waiting
Idle(w) == w \in DOMAIN workers => Pending(w) = 0

\* goroutine w passes its oldest waiting event to readDevice
TakesNext(w) == w \in DOMAIN workers /\ Takes(w)

\* C20: no event stops the loop: a goroutine that is running before an event
\* is handled is running after it, whatever the retrieval returned; while
\* the stop channel is not closed, every event a goroutine has received is
\* eventually passed to readDevice (its socket is empty again and again, or
\* it takes an event again and again); and a change event on endpoint count
\* "03" with a successful retrieval leaves the record ready, also after an
\* earlier retrieval for the same device failed.
C20_LoopSurvivesFailures ==
    /\ [][ev' # NoEvent
            => \A w \in DOMAIN workers : Running(w) => workers'[w].pc # "done"]_vars
    /\ [][(ATEvent(ev') /\ ev'.action = "change" /\ RetrievedSome(io'))
            => /\ ev'.usb.devnode \in DOMAIN devices'
               /\ devices'[ev'.usb.devnode].ready = 1
               /\ devices'[ev'.usb.devnode].Tty = ev'.devnode]_vars
    /\ \A w \in 1..MaxInputs :
          \/ []<>Idle(w)
          \/ []<><<TakesNext(w)>>_vars
          \/ <>(stopMonitor = "closed")

\* the retrieval for a plugged-in modem has just failed and left its record
\* not ready, the goroutine is back in its loop, and a change event for the
\* same device waits in its socket
C20_Witness ==
    /\ ev = Ev("add", TtyAT1)
    /\ RetrievalFailed(io)
    /\ Usb1.devnode \in DOMAIN devices
    /\ devices[Usb1.devnode].ready = 0
    /\ \E w \in DOMAIN workers :
          /\ workers[w].pc = "loop"
          /\ workers[w].queue # <<>>
          /\ Head(workers[w].queue) = Ev("change", TtyAT1)

====
